---- MODULE Spec2Model ----
(***************************************************************************)
(* Model of the `subset_eq` attribute macro (src/src/lib.rs).              *)
(*                                                                         *)
(* One pass of the macro takes the attribute's argument tokens (`attr`)    *)
(* and the annotated declaration's tokens (`item`) and returns a token     *)
(* stream: either the declaration followed by an impl block with one       *)
(* generated method, or a compile_error carrying a message and a span.     *)
(* A panic inside the pass (format_ident! on a string that is no           *)
(* identifier) is a third way for the pass to end and is modelled as       *)
(* such.  After a successful pass the generated method can be called on    *)
(* two instances of the record.                                            *)
(***************************************************************************)
EXTENDS Integers, Sequences, FiniteSets, TLC

VARIABLES
    item,               \* tokens of the annotated declaration
    attr,               \* tokens written inside #[subset_eq(...)]
    pc,                 \* position inside subset_eq
    input,              \* DeriveInput parsed from item
    args,               \* Args { ignored, method } parsed from attr
    method_name,        \* Ident of the generated method, once bound
    fields_to_compare,  \* Vec<Ident> of the retained fields, once bound
    output,             \* TokenStream returned by the pass (or the panic)
    call                \* last call of the generated method: a, b, result

vars == <<item, attr, pc, input, args, method_name, fields_to_compare, output, call>>

(***************************************************************************)
(* Bounds of the model.                                                    *)
(***************************************************************************)
\* items in one comma-separated argument list
MaxItems == 2
\* arguments written inside the ignore(...) calls of one argument list, in total
MaxIgnoreArgs == 2

\* field names a record may declare and an ignore list may mention
Names == {"x", "y"}
\* values a field of an instance may hold
Values == {0, 1}

(***************************************************************************)
(* Option, Result and Span values.                                         *)
(***************************************************************************)
None == [some |-> FALSE]
Some(v) == [some |-> TRUE, value |-> v]

NoValue == [tag |-> "none"]

\* A span names the syntax node it covers: a node of the i-th item of the
\* argument list (and its j-th call argument), or a node of the declaration.
Span(node, i, j) == [node |-> node, item |-> i, arg |-> j]

Error(span, msg) == [span |-> span, msg |-> msg]

Ok(v) == [tag |-> "Ok", value |-> v]
Err(e) == [tag |-> "Err", error |-> e]
Panicked == [tag |-> "Panic"]

(***************************************************************************)
(* Expressions of the argument list (syn::Expr), as far as Args::parse     *)
(* tells them apart.                                                       *)
(***************************************************************************)
ExprPath(segs) == [kind |-> "Path", segs |-> segs]
ExprLit(lit) == [kind |-> "Lit", lit |-> lit]
ExprOther == [kind |-> "Other"]
ExprCall(func, cargs) == [kind |-> "Call", func |-> func, args |-> cargs]
ExprAssign(left, right) == [kind |-> "Assign", left |-> left, right |-> right]

LitStr(s) == [kind |-> "Str", value |-> s]
LitInt == [kind |-> "Int"]

SeqsUpTo(S, n) == UNION {[1..k -> S] : k \in 0..n}

\* texts of the string literals tried as method names: "", "m", "m1", "1m"
StrTexts == {<<>>, <<"m">>, <<"m", "1">>, <<"1", "m">>}

\* x, y, a::b, 1 + 2
ArgExprs == {ExprPath(<<n>>) : n \in Names} \cup {ExprPath(<<"a", "b">>), ExprOther}

IgnoreCalls == {ExprCall(ExprPath(<<"ignore">>), al) : al \in SeqsUpTo(ArgExprs, MaxIgnoreArgs)}

\* skip(), (ignore)()
BadCalls == {ExprCall(ExprPath(<<"skip">>), <<>>), ExprCall(ExprOther, <<>>)}

MethodAssigns ==
    {ExprAssign(ExprPath(<<"method">>), r) :
        r \in {ExprLit(LitStr(s)) : s \in StrTexts} \cup {ExprLit(LitInt), ExprOther}}

\* name = "m", a::method = "m", (method) = "m"
BadAssigns ==
    {ExprAssign(l, ExprLit(LitStr(<<"m">>))) :
        l \in {ExprPath(<<"name">>), ExprPath(<<"a", "method">>), ExprOther}}

Exprs == IgnoreCalls \cup BadCalls \cup MethodAssigns \cup BadAssigns \cup {ExprOther}

\* arguments an item of the list contributes to the total
IgnoreArgCount(e) == IF e.kind = "Call" THEN Len(e.args) ELSE 0

RECURSIVE TotalIgnoreArgs(_)
TotalIgnoreArgs(items) ==
    IF items = <<>> THEN 0
    ELSE IgnoreArgCount(Head(items)) + TotalIgnoreArgs(Tail(items))

\* Token streams of the attribute: a comma-separated list of expressions, or
\* tokens that are no such list.
IsAttrTokens(t) ==
    \/ t = [parses |-> FALSE, items |-> <<>>]
    \/ \E n \in 0..MaxItems : \E s \in [1..n -> Exprs] :
          /\ TotalIgnoreArgs(s) <= MaxIgnoreArgs
          /\ t = [parses |-> TRUE, items |-> s]

(***************************************************************************)
(* Declarations the attribute may be attached to.                          *)
(***************************************************************************)
IsInjective(s) == \A i, j \in 1..Len(s) : s[i] = s[j] => i = j

\* field lists of records with named fields: names are unique within a record
NamedFieldLists == {s \in SeqsUpTo(Names, Cardinality(Names)) : IsInjective(s)}

FieldsNamed(named) == [shape |-> "Named", named |-> named]
FieldsUnnamed == [shape |-> "Unnamed"]
FieldsUnit == [shape |-> "Unit"]

ItemTokens ==
    {[kind |-> "struct", ident |-> "Item", fields |-> f] :
        f \in {FieldsNamed(s) : s \in NamedFieldLists} \cup {FieldsUnnamed, FieldsUnit}}
    \cup {[kind |-> k, ident |-> "Item"] : k \in {"enum", "union", "fn"}}

(***************************************************************************)
(* Identifiers made from strings (format_ident!).                          *)
(***************************************************************************)
Letters == {"a", "b", "c", "d", "e", "f", "g", "h", "i", "j", "k", "l", "m",
            "n", "o", "p", "q", "r", "s", "t", "u", "v", "w", "x", "y", "z"}
Digits == {"0", "1", "2", "3", "4", "5", "6", "7", "8", "9"}

IsIdentStart(c) == c = "_" \/ c \in Letters
IsIdentContinue(c) == IsIdentStart(c) \/ c \in Digits

IsValidIdent(text) ==
    /\ Len(text) > 0
    /\ IsIdentStart(text[1])
    /\ \A k \in 2..Len(text) : IsIdentContinue(text[k])

\* format_ident!("{}", text): the Ident spelled text, or a panic when text
\* is not the spelling of an identifier.
format_ident(text) == IF IsValidIdent(text) THEN Ok(text) ELSE Panicked

\* "eq_subset_ignoring"
DefaultMethodName ==
    <<"e", "q", "_", "s", "u", "b", "s", "e", "t", "_",
      "i", "g", "n", "o", "r", "i", "n", "g">>

(***************************************************************************)
(* Args::parse                                                             *)
(* (the messages are the source's, without their backticks and quotes)     *)
(***************************************************************************)
\* syn::Path::get_ident: the single segment of a one-segment path
get_ident(p) == IF Len(p.segs) = 1 THEN Some(p.segs[1]) ELSE None

is_ident(p, name) == get_ident(p) = Some(name)

\* The loop over call.args of the i-th item, from its j-th argument on:
\* the grown `ignored`, or the error of the first argument that is no
\* bare identifier.
RECURSIVE ParseIgnoreArgs(_, _, _, _)
ParseIgnoreArgs(cargs, j, i, ignored) ==
    IF j > Len(cargs) THEN Ok(ignored)
    ELSE LET arg == cargs[j] IN
         IF arg.kind = "Path"
         THEN IF get_ident(arg).some
              THEN ParseIgnoreArgs(cargs, j + 1, i, Append(ignored, get_ident(arg).value))
              ELSE Err(Error(Span("arg", i, j), "expected identifier in ignore(...)"))
         ELSE Err(Error(Span("arg", i, j), "expected identifier in ignore(...)"))

\* The Expr::Call arm for the i-th item.
ParseCall(callExpr, i, ignored) ==
    IF callExpr.func.kind = "Path"
    THEN IF is_ident(callExpr.func, "ignore")
         THEN ParseIgnoreArgs(callExpr.args, 1, i, ignored)
         ELSE Err(Error(Span("func", i, 0), "expected ignore(...)"))
    ELSE Err(Error(Span("func", i, 0), "expected path in ignore(...)"))

\* The Expr::Assign arm for the i-th item: the new value of method.
ParseAssign(assign, i) ==
    IF assign.left.kind = "Path"
    THEN IF get_ident(assign.left).some
         THEN IF get_ident(assign.left).value = "method"
              THEN IF assign.right.kind = "Lit"
                   THEN IF assign.right.lit.kind = "Str"
                        THEN LET id == format_ident(assign.right.lit.value) IN
                             IF id.tag = "Ok" THEN Ok(Some(id.value)) ELSE Panicked
                        ELSE Err(Error(Span("right_lit", i, 0),
                                       "method value must be a string literal"))
                   ELSE Err(Error(Span("right", i, 0),
                                  "method value must be a string literal"))
              ELSE Err(Error(Span("left_ident", i, 0),
                             "expected method on left-hand side"))
         ELSE Err(Error(Span("left", i, 0), "expected identifier on left-hand side"))
    ELSE Err(Error(Span("left", i, 0), "expected method = ... syntax"))

\* Mutant: a method = "..." item starts the ignore list afresh.
ParseOneItem_AssignResets(e, i, ignored, method) ==
    CASE e.kind = "Call" ->
            LET r == ParseCall(e, i, ignored) IN
            IF r.tag = "Ok" THEN Ok([ignored |-> r.value, method |-> method]) ELSE r
      [] e.kind = "Assign" ->
            LET r == ParseAssign(e, i) IN
            IF r.tag = "Ok" THEN Ok([ignored |-> <<>>, method |-> r.value]) ELSE r
      [] OTHER ->
            Err(Error(Span("item", i, 0),
                      "unsupported argument; use ignore(...) or method = ..."))

\* Mutant: the first method = "..." item wins.
ParseOneItem_FirstWins(e, i, ignored, method) ==
    CASE e.kind = "Call" ->
            LET r == ParseCall(e, i, ignored) IN
            IF r.tag = "Ok" THEN Ok([ignored |-> r.value, method |-> method]) ELSE r
      [] e.kind = "Assign" ->
            LET r == ParseAssign(e, i) IN
            IF r.tag = "Ok"
            THEN Ok([ignored |-> ignored,
                     method |-> IF method.some THEN method ELSE r.value])
            ELSE r
      [] OTHER ->
            Err(Error(Span("item", i, 0),
                      "unsupported argument; use ignore(...) or method = ..."))

\* One turn of the loop over the items: the match on the i-th item, giving
\* the new `ignored` and `method`, or the way the parse ends.
ParseOneItem(e, i, ignored, method) ==
    CASE e.kind = "Call" ->
            LET r == ParseCall(e, i, ignored) IN
            IF r.tag = "Ok" THEN Ok([ignored |-> r.value, method |-> method]) ELSE r
      [] e.kind = "Assign" ->
            LET r == ParseAssign(e, i) IN
            IF r.tag = "Ok" THEN Ok([ignored |-> ignored, method |-> r.value]) ELSE r
      [] OTHER ->
            Err(Error(Span("item", i, 0),
                      "unsupported argument; use ignore(...) or method = ..."))

\* The loop over the items from the i-th item on, ending in Ok(Args { ignored, method }).
RECURSIVE ParseItems(_, _, _, _)
ParseItems(items, i, ignored, method) ==
    IF i > Len(items) THEN Ok([ignored |-> ignored, method |-> method])
    ELSE LET r == ParseOneItem(items[i], i, ignored, method) IN
         IF r.tag = "Ok"
         THEN ParseItems(items, i + 1, r.value.ignored, r.value.method)
         ELSE r

\* Punctuated::<Expr, Comma>::parse_terminated(input)?  The error is syn's
\* own; its message stands for whatever syn reports at the offending token.
parse_terminated(tokens) ==
    IF tokens.parses THEN Ok(tokens.items)
    ELSE Err(Error(Span("attr_tokens", 0, 0), "expected an expression list"))

ArgsParse(tokens) ==
    LET items == parse_terminated(tokens) IN
    IF items.tag = "Ok" THEN ParseItems(items.value, 1, <<>>, None) ELSE items

(***************************************************************************)
(* subset_eq                                                               *)
(***************************************************************************)
\* Mutant: any item is taken for a declaration, a non-struct one for an enum.
DeriveInputParse_Lenient(tokens) ==
    IF tokens.kind = "struct"
    THEN Ok([ident |-> tokens.ident, data |-> [kind |-> "Struct", fields |-> tokens.fields]])
    ELSE Ok([ident |-> tokens.ident, data |-> [kind |-> "Enum"]])

\* parse_macro_input!(item as DeriveInput): a struct, enum or union; on any
\* other item syn's error is returned as the output of the pass.
DeriveInputParse(tokens) ==
    CASE tokens.kind = "struct" ->
            Ok([ident |-> tokens.ident, data |-> [kind |-> "Struct", fields |-> tokens.fields]])
      [] tokens.kind = "enum" -> Ok([ident |-> tokens.ident, data |-> [kind |-> "Enum"]])
      [] tokens.kind = "union" -> Ok([ident |-> tokens.ident, data |-> [kind |-> "Union"]])
      [] OTHER -> Err(Error(Span("item_keyword", 0, 0),
                            "expected one of: struct, enum, union"))

\* #input inside quote!: the declaration written out again
DeriveInputTokens(di) ==
    CASE di.data.kind = "Struct" ->
            [kind |-> "struct", ident |-> di.ident, fields |-> di.data.fields]
      [] di.data.kind = "Enum" -> [kind |-> "enum", ident |-> di.ident]
      [] di.data.kind = "Union" -> [kind |-> "union", ident |-> di.ident]

\* Error::new(span, msg).to_compile_error().into()
CompileError(e) == [tag |-> "CompileError", error |-> e]

\* method.unwrap_or_else(|| format_ident!("eq_subset_ignoring"))
ResolveMethodName(method) ==
    IF method.some THEN method.value ELSE format_ident(DefaultMethodName).value

\* Mutant: naming a field a second time takes it back out of the ignored ones.
IsIgnored_Toggle(ignored, id) ==
    Cardinality({k \in 1..Len(ignored) : ignored[k] = id}) % 2 = 1

\* Mutant: only the first ignored name is looked at.
IsIgnored_FirstOnly(ignored, id) == Len(ignored) > 0 /\ ignored[1] = id

\* ignored.iter().any(|x| x == id)
IsIgnored(ignored, id) == \E k \in 1..Len(ignored) : ignored[k] = id

\* named.iter().filter_map(...).collect::<Vec<_>>()
RECURSIVE FilterFields(_, _)
FilterFields(named, ignored) ==
    IF named = <<>> THEN <<>>
    ELSE IF IsIgnored(ignored, Head(named))
         THEN FilterFields(Tail(named), ignored)
         ELSE <<Head(named)>> \o FilterFields(Tail(named), ignored)

\* Mutant: a struct without named fields is taken to have no fields.
SelectFields_NoShapeCheck(di, ignored) ==
    IF di.data.kind = "Struct"
    THEN IF di.data.fields.shape = "Named"
         THEN Ok(FilterFields(di.data.fields.named, ignored))
         ELSE Ok(<<>>)
    ELSE Err(Error(Span("input", 0, 0), "subset_eq can only be applied to structs"))

\* let fields_to_compare = match &input.data { ... }
SelectFields(di, ignored) ==
    IF di.data.kind = "Struct"
    THEN IF di.data.fields.shape = "Named"
         THEN Ok(FilterFields(di.data.fields.named, ignored))
         ELSE Err(Error(Span("fields", 0, 0),
                        "subset_eq only supports structs with named fields"))
    ELSE Err(Error(Span("input", 0, 0), "subset_eq can only be applied to structs"))

\* Mutant: the emptiness check is left out.
CheckNotEmpty_Skipped(fields) == Ok(fields)

VacuousMsg == "no fields left to compare after ignoring specified ones"

\* if fields_to_compare.is_empty() { return Error::new(input.span(), ...) }
CheckNotEmpty(fields) ==
    IF fields = <<>>
    THEN Err(Error(Span("input", 0, 0), VacuousMsg))
    ELSE Ok(fields)

\* quote! { #input impl #struct_name { pub fn #method_name(&self, other: &Self)
\*          -> bool { #self_tuple == #other_tuple } } }
Expanded(di, name, fields) ==
    [tag |-> "Tokens",
     decl |-> DeriveInputTokens(di),
     methods |-> << [struct_name |-> di.ident,
                     method_name |-> name,
                     self_tuple |-> fields,
                     other_tuple |-> fields] >>]

\* The whole pass as a function of its two token streams.
subset_eq(attrTokens, itemTokens) ==
    LET di == DeriveInputParse(itemTokens) IN
    IF di.tag = "Err" THEN CompileError(di.error)
    ELSE LET parsed == ArgsParse(attrTokens) IN
         IF parsed.tag = "Panic" THEN Panicked
         ELSE IF parsed.tag = "Err" THEN CompileError(parsed.error)
         ELSE LET name == ResolveMethodName(parsed.value.method)
                  sel == SelectFields(di.value, parsed.value.ignored)
              IN IF sel.tag = "Err" THEN CompileError(sel.error)
                 ELSE LET chk == CheckNotEmpty(sel.value) IN
                      IF chk.tag = "Err" THEN CompileError(chk.error)
                      ELSE Expanded(di.value, name, sel.value)

(***************************************************************************)
(* The generated method.                                                   *)
(***************************************************************************)
\* Mutant: only the first components are compared.
TupleEq_FirstOnly(s, t) == s = <<>> \/ Head(s) = Head(t)

\* PartialEq of tuples: component by component, left to right
RECURSIVE TupleEq(_, _)
TupleEq(s, t) ==
    IF s = <<>> THEN TRUE
    ELSE IF Head(s) = Head(t) THEN TupleEq(Tail(s), Tail(t)) ELSE FALSE

\* ( &self.f1, &self.f2, ... ) == ( &other.f1, &other.f2, ... )
GeneratedMethod(m, self, other) ==
    TupleEq([k \in 1..Len(m.self_tuple) |-> self[m.self_tuple[k]]],
            [k \in 1..Len(m.other_tuple) |-> other[m.other_tuple[k]]])

Range(s) == {s[k] : k \in 1..Len(s)}

\* the named fields a declaration declares
DeclaredFields(tokens) ==
    IF tokens.kind = "struct" /\ tokens.fields.shape = "Named"
    THEN tokens.fields.named
    ELSE <<>>

\* instances of the declared type
Instances(tokens) == [Range(DeclaredFields(tokens)) -> Values]

(***************************************************************************)
(* The pass, step by step, and calls of the generated method.              *)
(***************************************************************************)
Init ==
    /\ IsAttrTokens(attr)
    /\ item \in ItemTokens
    /\ pc = "parse_item"
    /\ input = NoValue
    /\ args = NoValue
    /\ method_name = None
    /\ fields_to_compare = None
    /\ output = NoValue
    /\ call = NoValue

\* let input = parse_macro_input!(item as DeriveInput);
ParseItem ==
    /\ pc = "parse_item"
    /\ LET di == DeriveInputParse(item) IN
       IF di.tag = "Ok"
       THEN /\ input' = di.value
            /\ pc' = "parse_attr"
            /\ UNCHANGED output
       ELSE /\ output' = CompileError(di.error)
            /\ pc' = "done"
            /\ UNCHANGED input
    /\ UNCHANGED <<item, attr, args, method_name, fields_to_compare, call>>

\* let Args { ignored, method } = parse_macro_input!(attr as Args);
ParseAttr ==
    /\ pc = "parse_attr"
    /\ LET parsed == ArgsParse(attr) IN
       CASE parsed.tag = "Ok" ->
                /\ args' = parsed.value
                /\ pc' = "select"
                /\ UNCHANGED output
         [] parsed.tag = "Err" ->
                /\ output' = CompileError(parsed.error)
                /\ pc' = "done"
                /\ UNCHANGED args
         [] parsed.tag = "Panic" ->
                /\ output' = Panicked
                /\ pc' = "done"
                /\ UNCHANGED args
    /\ UNCHANGED <<item, attr, input, method_name, fields_to_compare, call>>

\* method_name, struct_name and the match that collects fields_to_compare
Select ==
    /\ pc = "select"
    /\ method_name' = Some(ResolveMethodName(args.method))
    /\ LET sel == SelectFields(input, args.ignored) IN
       IF sel.tag = "Ok"
       THEN /\ fields_to_compare' = Some(sel.value)
            /\ pc' = "check_empty"
            /\ UNCHANGED output
       ELSE /\ output' = CompileError(sel.error)
            /\ pc' = "done"
            /\ UNCHANGED fields_to_compare
    /\ UNCHANGED <<item, attr, input, args, call>>

\* if fields_to_compare.is_empty() { return ... }
CheckEmpty ==
    /\ pc = "check_empty"
    /\ LET chk == CheckNotEmpty(fields_to_compare.value) IN
       IF chk.tag = "Ok"
       THEN /\ pc' = "emit"
            /\ UNCHANGED output
       ELSE /\ output' = CompileError(chk.error)
            /\ pc' = "done"
    /\ UNCHANGED <<item, attr, input, args, method_name, fields_to_compare, call>>

\* self_tuple, other_tuple, expanded.into()
Emit ==
    /\ pc = "emit"
    /\ output' = Expanded(input, method_name.value, fields_to_compare.value)
    /\ pc' = "done"
    /\ UNCHANGED <<item, attr, input, args, method_name, fields_to_compare, call>>

\* a.method_name(&b) on two instances of the record
CallMethod ==
    /\ pc = "done"
    /\ output.tag = "Tokens"
    /\ \E a, b \in Instances(output.decl) :
         call' = [a |-> a, b |-> b, result |-> GeneratedMethod(output.methods[1], a, b)]
    /\ UNCHANGED <<item, attr, pc, input, args, method_name, fields_to_compare, output>>

Next ==
    \/ ParseItem
    \/ ParseAttr
    \/ Select
    \/ CheckEmpty
    \/ Emit
    \/ CallMethod

Spec == Init /\ [][Next]_vars

TypeOK ==
    /\ pc \in {"parse_item", "parse_attr", "select", "check_empty", "emit", "done"}
    /\ item \in ItemTokens

(***************************************************************************)
(* Vocabulary of the properties, read off the written tokens.              *)
(***************************************************************************)
\* an item of one of the two recognised shapes
WellFormedItem(e) ==
    \/ /\ e.kind = "Call"
       /\ e.func = ExprPath(<<"ignore">>)
       /\ \A j \in 1..Len(e.args) : e.args[j].kind = "Path" /\ Len(e.args[j].segs) = 1
    \/ /\ e.kind = "Assign"
       /\ e.left = ExprPath(<<"method">>)
       /\ e.right.kind = "Lit"
       /\ e.right.lit.kind = "Str"

IsIgnoreItem(e) == e.kind = "Call" /\ WellFormedItem(e)
IsMethodItem(e) == e.kind = "Assign" /\ WellFormedItem(e)

\* the names written inside the ignore(...) calls of a list
WrittenIgnored(items) ==
    UNION {{items[i].args[j].segs[1] : j \in 1..Len(items[i].args)} :
              i \in {k \in 1..Len(items) : IsIgnoreItem(items[k])}}

\* the texts of the method = "..." items of a list, in list order
RECURSIVE WrittenMethods(_)
WrittenMethods(items) ==
    IF items = <<>> THEN <<>>
    ELSE (IF IsMethodItem(Head(items)) THEN <<Head(items).right.lit.value>> ELSE <<>>)
         \o WrittenMethods(Tail(items))

\* the pass got past both parsers: the declaration is a struct, enum or
\* union and Args::parse returned Ok
ArgsParsed == args # NoValue

IsNamedStruct(tokens) == tokens.kind = "struct" /\ tokens.fields.shape = "Named"

Position(s, x) == CHOOSE k \in 1..Len(s) : s[k] = x

(***************************************************************************)
(* C1: for a record with named fields and a successfully parsed ignore     *)
(* list, the retained-field list is exactly the record's fields whose      *)
(* name is not in `ignored`, each once and in declaration order; it is     *)
(* the list both tuples of the generated method are built from.            *)
(***************************************************************************)
C1_RetainedFields ==
    fields_to_compare.some =>
        LET named == item.fields.named
            kept == fields_to_compare.value
        IN /\ \A k \in 1..Len(named) :
                 (named[k] \in Range(kept)) <=> (named[k] \notin Range(args.ignored))
           /\ Range(kept) \subseteq Range(named)
           /\ IsInjective(kept)
           /\ \A p, q \in 1..Len(kept) :
                 p < q => Position(named, kept[p]) < Position(named, kept[q])
           /\ output.tag = "Tokens" =>
                 /\ output.methods[1].self_tuple = kept
                 /\ output.methods[1].other_tuple = kept

\* a two-field record of which one field is ignored and one retained
C1_Witness ==
    /\ fields_to_compare.some
    /\ Len(item.fields.named) = 2
    /\ Len(fields_to_compare.value) = 1
    /\ output.tag = "Tokens"

(***************************************************************************)
(* C2: the generated method returns true exactly when every retained       *)
(* field of a equals the same field of b: true for instances equal on all  *)
(* fields, true for instances that differ only in ignored fields, false    *)
(* for instances that differ in a retained field.                          *)
(***************************************************************************)
C2_MethodResult ==
    call # NoValue =>
        LET fields == Range(DeclaredFields(item))
            ign == WrittenIgnored(attr.items)
            differ == {f \in fields : call.a[f] # call.b[f]}
        IN /\ differ = {} => call.result
           /\ differ \subseteq ign => call.result
           /\ differ \ ign # {} => ~call.result
           /\ call.result <=>
                 \A f \in Range(fields_to_compare.value) : call.a[f] = call.b[f]

\* two instances that differ, in an ignored field only, compare equal
C2_Witness ==
    /\ call # NoValue
    /\ call.a # call.b
    /\ call.result
    /\ Len(fields_to_compare.value) = 1

(***************************************************************************)
(* C3: for a record with named fields and a well-formed argument list,     *)
(* the pass ends in the vacuous-comparison diagnostic, and generates no    *)
(* method, if the ignore list names every field of the record; it does     *)
(* not end in that diagnostic if some field is not named.                  *)
(***************************************************************************)
VacuousDiagnostic == CompileError(Error(Span("input", 0, 0), VacuousMsg))

C4_TwoOutcomes ==
    pc = "done" =>
        \/ /\ output.tag = "Tokens"
           /\ output.decl = item
           /\ Len(output.methods) = 1
        \/ /\ output.tag = "CompileError"
           /\ DOMAIN output = {"tag", "error"}

(***************************************************************************)
(* C5: Args::parse succeeds exactly when every item of the list has one    *)
(* of the two recognised shapes; otherwise it returns the diagnostic of    *)
(* the first malformed item (inside an ignore(...) call, of its first      *)
(* argument that is no identifier) and no Args.                            *)
(***************************************************************************)
AllWellFormed(items) == \A i \in 1..Len(items) : WellFormedItem(items[i])

FirstMalformed(items) ==
    CHOOSE i \in 1..Len(items) :
        /\ ~WellFormedItem(items[i])
        /\ \A k \in 1..(i - 1) : WellFormedItem(items[k])

IsBareIdent(e) == e.kind = "Path" /\ Len(e.segs) = 1

\* the arguments Args::parse has returned from
AttrParseDone == input # NoValue /\ pc \notin {"parse_item", "parse_attr"}

C5_ParseOutcome ==
    (AttrParseDone /\ attr.parses) =>
        IF AllWellFormed(attr.items)
        THEN ArgsParsed
        ELSE LET i == FirstMalformed(attr.items)
                 e == attr.items[i]
             IN /\ ~ArgsParsed
                /\ output.tag = "CompileError"
                /\ output.error.span.item = i
                /\ (e.kind = "Call" /\ e.func = ExprPath(<<"ignore">>)) =>
                      /\ output.error.span.node = "arg"
                      /\ ~IsBareIdent(e.args[output.error.span.arg])
                      /\ \A j \in 1..(output.error.span.arg - 1) : IsBareIdent(e.args[j])

(***************************************************************************)
(* C6: with a well-formed argument list the pass succeeds only for a       *)
(* record with named fields; a record with positional fields or without    *)
(* a field list ends in the wrong-field-shape diagnostic anchored at the   *)
(* declaration's fields, an enumeration or union in the wrong-kind         *)
(* diagnostic anchored at the whole item, and no method is generated.      *)
(***************************************************************************)
WrongShapeDiagnostic ==
    CompileError(Error(Span("fields", 0, 0),
                       "subset_eq only supports structs with named fields"))

WrongKindDiagnostic ==
    CompileError(Error(Span("input", 0, 0), "subset_eq can only be applied to structs"))

IsIgnoreAndMethod(items) ==
    /\ Len(items) = 2
    /\ \/ IsIgnoreItem(items[1]) /\ IsMethodItem(items[2])
       \/ IsMethodItem(items[1]) /\ IsIgnoreItem(items[2])

Swapped(tokens) == [parses |-> TRUE, items |-> <<tokens.items[2], tokens.items[1]>>]

C7_OrderInvariance ==
    (pc = "done" /\ attr.parses /\ IsIgnoreAndMethod(attr.items)) =>
        output = subset_eq(Swapped(attr), item)

\* method = "m", ignore(f) with f a field of the record: a method is generated
C7_Witness ==
    /\ pc = "done"
    /\ attr.parses
    /\ IsIgnoreAndMethod(attr.items)
    /\ IsMethodItem(attr.items[1])
    /\ WrittenIgnored(attr.items) \cap Range(DeclaredFields(item)) # {}
    /\ output.tag = "Tokens"

(***************************************************************************)
(* C8: listing a name more than once, inside one ignore(...) call or over  *)
(* several, gives the same generated method as listing it once.            *)
(***************************************************************************)
\* the arguments of one call without those already seen
RECURSIVE DedupArgs(_, _)
DedupArgs(cargs, seen) ==
    IF cargs = <<>> THEN <<>>
    ELSE IF Head(cargs).segs[1] \in seen
         THEN DedupArgs(Tail(cargs), seen)
         ELSE <<Head(cargs)>> \o DedupArgs(Tail(cargs), seen \cup {Head(cargs).segs[1]})

\* a well-formed list with every repeated mention of a name removed
RECURSIVE DedupItems(_, _)
DedupItems(items, seen) ==
    IF items = <<>> THEN <<>>
    ELSE LET e == Head(items) IN
         IF IsIgnoreItem(e)
         THEN <<ExprCall(e.func, DedupArgs(e.args, seen))>>
              \o DedupItems(Tail(items), seen \cup WrittenIgnored(<<e>>))
         ELSE <<e>> \o DedupItems(Tail(items), seen)

Deduplicated(tokens) == [parses |-> TRUE, items |-> DedupItems(tokens.items, {})]

C8_Idempotence ==
    (pc = "done" /\ attr.parses /\ AllWellFormed(attr.items)) =>
        output = subset_eq(Deduplicated(attr), item)

\* a field is listed twice and a method is generated
C8_Witness ==
    /\ pc = "done"
    /\ attr.parses
    /\ AllWellFormed(attr.items)
    /\ Deduplicated(attr) # attr
    /\ WrittenIgnored(attr.items) \cap Range(DeclaredFields(item)) # {}
    /\ output.tag = "Tokens"

(***************************************************************************)
(* C9: on a successful pass the generated method is named                  *)
(* eq_subset_ignoring when the list has no method = "..." item, and        *)
(* otherwise exactly the string of the last method = "..." item.           *)
(***************************************************************************)
C9_MethodNaming ==
    (pc = "done" /\ output.tag = "Tokens") =>
        LET ms == WrittenMethods(attr.items) IN
        output.methods[1].method_name =
            IF ms = <<>> THEN DefaultMethodName ELSE ms[Len(ms)]

\* two method = "..." items with different strings: a method is generated
C9_Witness ==
    /\ pc = "done"
    /\ output.tag = "Tokens"
    /\ Len(WrittenMethods(attr.items)) = 2
    /\ WrittenMethods(attr.items)[1] # WrittenMethods(attr.items)[2]

(***************************************************************************)
(* C10: the argument parser runs first, then the declaration's kind and    *)
(* field shape are verified, then the retained fields are computed and     *)
(* checked for emptiness, then the artifact is emitted; so of several      *)
(* rejection reasons the one reported is chosen in the priority            *)
(* malformed argument, wrong declaration kind, vacuous comparison.         *)
(***************************************************************************)
ArgumentNodes ==
    {"attr_tokens", "item", "func", "arg", "left", "left_ident", "right", "right_lit"}

IsMalformedArgumentDiagnostic(out) ==
    out.tag = "CompileError" /\ out.error.span.node \in ArgumentNodes

\* the annotated item is not a record, or a record without named fields
IsWrongKindDiagnostic(out) ==
    /\ out.tag = "CompileError"
    /\ out.error.span.node \in {"item_keyword", "fields", "input"}
    /\ out.error.msg # VacuousMsg

MalformedArguments(tokens) == ~tokens.parses \/ ~AllWellFormed(tokens.items)

AllFieldsIgnored ==
    IsNamedStruct(item) /\ Range(item.fields.named) \subseteq WrittenIgnored(attr.items)

C10_Priority ==
    pc = "done" =>
        IF MalformedArguments(attr) THEN IsMalformedArgumentDiagnostic(output)
        ELSE IF ~IsNamedStruct(item) THEN IsWrongKindDiagnostic(output)
        ELSE IF AllFieldsIgnored THEN output = VacuousDiagnostic
        ELSE TRUE

(***************************************************************************)
(* C10, amended: the declaration is parsed first and an item that is no    *)
(* struct, enum or union ends the pass there, whatever the arguments are;  *)
(* then the argument parser runs, then kind and field shape are verified,  *)
(* then the retained fields are computed and checked for emptiness, then   *)
(* the artifact is emitted.  The way the pass ends is chosen in this       *)
(* priority: declaration-parse diagnostic; the first item, in list order,  *)
(* that is malformed (its diagnostic) or is a method string that spells    *)
(* no identifier (a panic, no diagnostic); wrong-kind or wrong-shape       *)
(* diagnostic; vacuous-comparison diagnostic; success.                     *)
(***************************************************************************)
\* an item the parser gets past
ItemAccepted(e) ==
    WellFormedItem(e) /\ (IsMethodItem(e) => IsValidIdent(e.right.lit.value))

FirstNotAccepted(items) ==
    CHOOSE i \in 1..Len(items) :
        /\ ~ItemAccepted(items[i])
        /\ \A k \in 1..(i - 1) : ItemAccepted(items[k])

C10_PriorityAmended ==
    /\ ArgsParsed => input # NoValue
    /\ fields_to_compare.some => ArgsParsed
    /\ output.tag = "Tokens" => fields_to_compare.some
    /\ pc = "done" =>
          IF item.kind \notin {"struct", "enum", "union"}
          THEN /\ output.tag = "CompileError"
               /\ output.error.span.node = "item_keyword"
               /\ ~ArgsParsed
          ELSE IF ~attr.parses
          THEN output.tag = "CompileError" /\ output.error.span.node = "attr_tokens"
          ELSE IF \E i \in 1..Len(attr.items) : ~ItemAccepted(attr.items[i])
          THEN LET i == FirstNotAccepted(attr.items) IN
               IF WellFormedItem(attr.items[i])
               THEN output = Panicked
               ELSE /\ IsMalformedArgumentDiagnostic(output)
                    /\ output.error.span.item = i
          ELSE IF ~IsNamedStruct(item)
          THEN output \in {WrongShapeDiagnostic, WrongKindDiagnostic}
          ELSE IF AllFieldsIgnored
          THEN output = VacuousDiagnostic
          ELSE output.tag = "Tokens"

\* a malformed argument list on an item that is no struct, enum or union:
\* the declaration parser's diagnostic is the one returned
C10_Witness ==
    /\ pc = "done"
    /\ item.kind = "fn"
    /\ attr.parses
    /\ ~AllWellFormed(attr.items)
    /\ output.tag = "CompileError"
    /\ output.error.span.node = "item_keyword"

====
